---- MODULE Spec2Model ----
(***************************************************************************)
(* BorderStyle (kivy/uix/styles.py): a widget mixin that keeps a rectangle *)
(* outline (a Line instruction in canvas.after) in step with the widget's  *)
(* pos, size and border configuration.                                     *)
(*                                                                         *)
(* The widget is one object; its attributes are the variables below.  A    *)
(* second widget of the same class (peer) and the attributes of the class  *)
(* itself (klass) are kept beside it: an attribute that an instance has    *)
(* not been assigned is read from the class.  The                          *)
(* kivy property system is modelled by what it does: assigning a property  *)
(* stores the value and calls the on_<name> handler synchronously, and     *)
(* only when the new value differs from the stored one; a list property    *)
(* made of two numeric ones (_border_origin) calls its handler once per    *)
(* component that changes; assigning a list property as a whole (pos,      *)
(* size) calls the handler once.  border_style is a plain attribute.       *)
(* Line and Color are holders of the values the code assigns to them.      *)
(* An exception leaves the attributes as they were when it was raised.     *)
(*                                                                         *)
(* Numbers are integers; widths are multiples of 4, so that width / 4 is   *)
(* the same number under integer and under true division.                  *)
(***************************************************************************)
EXTENDS Integers, Sequences, FiniteSets, TLC

VARIABLES
    phase,            \* "new": __init__ not run; "ok": constructed; "raised": __init__ raised
    exc,              \* exception raised by the last operation, "none" if it returned
    pos, size,        \* Widget.pos, Widget.size
    border_width, border_style, border_color, borders,
    cur_dash_style,
    _border_origin, _border_lines, _border_color, _INIT_STATE,
    canvas_after,     \* ids of the Line instructions added to canvas.after
    layout_fired,     \* history: on_size or on__border_origin has been entered
    handled,          \* history: on_pos, on_size or on_border_width has been entered
    last,             \* history: the last operation, its arguments, and whether the
                      \* assigned value differed from the stored one (a handler ran)
    klass,            \* the attributes declared in the body of class BorderStyle
    peer,             \* a second widget: its phase and its attributes
    actor,            \* history: the widget of the last operation, "A" (this one) or "B"
    zeroed,           \* history: id of the primitive that existed when border_width was
                      \* assigned 0, while border_width has not been assigned since; else 0
    reactivated_from  \* history: value of zeroed before the last border_width assignment

vars == <<phase, exc, pos, size, border_width, border_style, border_color, borders,
          cur_dash_style, _border_origin, _border_lines, _border_color, _INIT_STATE,
          canvas_after, layout_fired, handled, last, klass, peer, actor,
          zeroed, reactivated_from>>

---------------------------------------------------------------------------
\* Bounds of the model

\* border widths assigned from outside are 0, 1, -1, MaxBW and -MaxBW
MaxBW == 2
\* positions assigned from outside are <<x, x>> and <<x, 0>>, x one of -MaxPos, 0, MaxPos
MaxPos == 1
\* sizes assigned from outside are <<0, 0>>, <<4k, 6k>> with k = MaxQuarter, and the default
MaxQuarter == 1
\* the widget's own writes to pos are followed while its coordinates stay in
\* -MaxCoord .. MaxCoord
MaxCoord == 2

---------------------------------------------------------------------------
\* Values

White == <<1, 1, 1, 1>>
Red == <<1, 0, 0, 1>>
Colors == {White, Red}

\* 'wavy' stands for any key that is not in _dash_styles
StyleNames == {"solid", "dashed", "dotted", "wavy"}

\* kivy.uix.widget.Widget: pos = (0, 0), size = (100, 100)
WidgetDefaultPos == <<0, 0>>
WidgetDefaultSize == <<100, 100>>

BWValues == {0 - MaxBW, 0 - 1, 0, 1, MaxBW}
Positions ==
    {<<x, x>> : x \in {0 - MaxPos, 0, MaxPos}} \cup {<<x, 0>> : x \in {0 - MaxPos, 0, MaxPos}}
Sizes == {<<4 * k, 6 * k>> : k \in {0, MaxQuarter}} \cup {WidgetDefaultSize}

\* an optional value (a keyword argument that may be missing, an attribute that
\* may be unset, None) is a sequence of length 0 or 1
None == <<>>
Some(v) == <<v>>

_dash_styles ==
    [dashed |-> [dash_length |-> 10, dash_offset |-> 5],
     dotted |-> [dash_length |-> 1, dash_offset |-> 1],
     solid |-> [dash_length |-> 1, dash_offset |-> 0]]

\* faulty variant of fabs: the sign is kept
fabs_keeps_sign(x) == x

fabs(x) == IF x < 0 THEN 0 - x ELSE x

---------------------------------------------------------------------------
\* The widget as a record, so that handlers are functions from state to state.
\* The field calls counts, per handler, the entries into it since the operation
\* began; it is part of no state.

Handlers == {"on__border_origin", "on_size", "on_pos", "on_borders", "on_border_width"}

NoCalls == [h \in Handlers |-> 0]

\* the handler h is entered
Enter(s, h) ==
    [s EXCEPT !.calls[h] = @ + 1,
              !.handled = @ \/ h \in {"on_pos", "on_size", "on_border_width"},
              !.layout_fired = @ \/ h \in {"on_size", "on__border_origin"}]

Widget ==
    [exc |-> exc, pos |-> pos, size |-> size,
     border_width |-> border_width, border_style |-> border_style,
     border_color |-> border_color, borders |-> borders,
     cur_dash_style |-> cur_dash_style,
     _border_origin |-> _border_origin, _border_lines |-> _border_lines,
     _border_color |-> _border_color, _INIT_STATE |-> _INIT_STATE,
     canvas_after |-> canvas_after, layout_fired |-> layout_fired,
     handled |-> handled, calls |-> NoCalls, cls |-> klass]

Raised(s) == s.exc # "none"

\* the attributes assigned in the class body that the code reads through self
ClassAttributes ==
    [_INIT_STATE |-> FALSE, _border_lines |-> None, _dash_styles |-> _dash_styles]

\* self._INIT_STATE, self._border_lines: the instance's attribute when it has been
\* assigned, else the attribute of the class
Get_INIT_STATE(s) ==
    IF s._INIT_STATE # None THEN s._INIT_STATE[1] ELSE s.cls._INIT_STATE

Get_border_lines(s) ==
    IF s._border_lines # None THEN s._border_lines ELSE s.cls._border_lines

\* the attributes of an instance when __init__ starts: the defaults of the properties;
\* _INIT_STATE and _border_lines are not assigned.
\* The default of borders is a list whose first and third elements are the
\* property objects border_width and border_color themselves (props = TRUE): it
\* equals no list of a number, a string and a colour.
ClassDefaults ==
    [exc |-> "none", pos |-> WidgetDefaultPos, size |-> WidgetDefaultSize,
     border_width |-> 1, border_style |-> None,
     border_color |-> White,
     borders |-> [props |-> TRUE, v |-> <<0, "solid", White>>],
     cur_dash_style |-> None,
     _border_origin |-> <<0, 0>>, _border_lines |-> None,
     _border_color |-> None, _INIT_STATE |-> None,
     canvas_after |-> <<>>, layout_fired |-> FALSE,
     handled |-> FALSE]

---------------------------------------------------------------------------
\* Handlers

_draw_border(s) ==
    IF Raised(s) THEN s
    ELSE IF s.cur_dash_style = None
    THEN [s EXCEPT !.exc = "AttributeError"]
    ELSE [s EXCEPT
            !._border_color = Some(s.border_color),
            !._border_lines =
                Some([id |-> Len(s.canvas_after) + 1,
                      rectangle |-> <<0, 0, 0, 0>>,
                      width |-> s.border_width,
                      dash_length |-> s.cur_dash_style[1].dash_length,
                      dash_offset |-> s.cur_dash_style[1].dash_offset]),
            !.canvas_after = Append(@, Len(@) + 1)]

\* faulty variant of _update_borders: the rectangle is shortened by width, not by 2 * width
_update_borders_single_width(s) ==
    LET width == s.border_width
    IN  IF Get_border_lines(s) # None
        THEN [s EXCEPT !._border_lines[1].rectangle =
                <<s._border_origin[1], s._border_origin[2],
                  s.size[1] - width, s.size[2] - width>>]
        ELSE s

_update_borders(s) ==
    LET width == s.border_width
        dbl_width == 2 * width
    IN  IF Get_border_lines(s) # None
        THEN [s EXCEPT !._border_lines[1].rectangle =
                <<s._border_origin[1], s._border_origin[2],
                  s.size[1] - dbl_width, s.size[2] - dbl_width>>]
        ELSE s

\* faulty variant of on__border_origin: the flag is set on the class, not on the instance
on__border_origin_flags_class(s) ==
    LET s1 == _update_borders(Enter(s, "on__border_origin"))
    IN  IF ~Get_INIT_STATE(s1)
        THEN _draw_border([s1 EXCEPT !.cls._INIT_STATE = TRUE])
        ELSE s1

on__border_origin(s) ==
    LET s1 == _update_borders(Enter(s, "on__border_origin"))
    IN  IF ~Get_INIT_STATE(s1)
        THEN _draw_border([s1 EXCEPT !._INIT_STATE = Some(TRUE)])
        ELSE s1

\* assignment to the numeric property _border_origin_x / _border_origin_y
Set_border_origin_x(s, v) ==
    IF Raised(s) \/ v = s._border_origin[1] THEN s
    ELSE on__border_origin([s EXCEPT !._border_origin[1] = v])

Set_border_origin_y(s, v) ==
    IF Raised(s) \/ v = s._border_origin[2] THEN s
    ELSE on__border_origin([s EXCEPT !._border_origin[2] = v])

set_border_origin(s) ==
    LET s1 == Set_border_origin_x(s, s.pos[1] + s.border_width)
    IN  Set_border_origin_y(s1, s1.pos[2] + s1.border_width)

on_pos(s) == set_border_origin(Enter(s, "on_pos"))

\* assignment to Widget.pos
Set_pos(s, v) ==
    IF Raised(s) \/ v = s.pos THEN s
    ELSE on_pos([s EXCEPT !.pos = v])

\* faulty variant of on_size: the primitive is drawn without the test of _INIT_STATE
on_size_unguarded(s) ==
    LET s1 == set_border_origin(Enter(s, "on_size"))
        s2 == Set_pos(s1, s1._border_origin)
    IN  IF Raised(s2) THEN s2
        ELSE _draw_border([s2 EXCEPT !._INIT_STATE = Some(TRUE)])

\* faulty variant of on_size: pos is not overwritten with the origin
on_size_keeps_pos(s) ==
    LET s2 == set_border_origin(Enter(s, "on_size"))
    IN  IF Raised(s2) THEN s2
        ELSE IF ~Get_INIT_STATE(s2)
        THEN _draw_border([s2 EXCEPT !._INIT_STATE = Some(TRUE)])
        ELSE s2

on_size(s) ==
    LET s1 == set_border_origin(Enter(s, "on_size"))
        s2 == Set_pos(s1, s1._border_origin)
    IN  IF Raised(s2) THEN s2
        ELSE IF ~Get_INIT_STATE(s2)
        THEN _draw_border([s2 EXCEPT !._INIT_STATE = Some(TRUE)])
        ELSE s2

\* assignment to Widget.size
Set_size(s, v) ==
    IF Raised(s) \/ v = s.size THEN s
    ELSE on_size([s EXCEPT !.size = v])

RECURSIVE on_border_width(_)

\* assignment to the numeric property border_width
Set_border_width(s, v) ==
    IF Raised(s) \/ v = s.border_width THEN s
    ELSE on_border_width([s EXCEPT !.border_width = v])

\* faulty variant of on_border_width: a positive width within the limit is not passed on to
\* the primitive
on_border_width_keeps_stroke(s) ==
    LET s1 == set_border_origin(Enter(s, "on_border_width"))
        max_width == s1.size[1] \div 4
    IN  IF Raised(s1) THEN s1
        ELSE IF Get_border_lines(s1) # None
        THEN IF s1.border_width <= max_width
             THEN IF s1.border_width > 0
                  THEN s1
                  ELSE IF s1.border_width # 0
                       THEN [s1 EXCEPT !._border_lines[1].width = fabs(s1.border_width)]
                       ELSE [s1 EXCEPT !._border_lines[1].rectangle = <<0, 0, 0, 0>>]
             ELSE Set_border_width(
                      [s1 EXCEPT !._border_lines[1].width = max_width], max_width)
        ELSE s1

\* faulty variant of on_border_width: a negative width is not passed on to the primitive
on_border_width_ignores_negative(s) ==
    LET s1 == set_border_origin(Enter(s, "on_border_width"))
        max_width == s1.size[1] \div 4
    IN  IF Raised(s1) THEN s1
        ELSE IF Get_border_lines(s1) # None
        THEN IF s1.border_width <= max_width
             THEN IF s1.border_width > 0
                  THEN [s1 EXCEPT !._border_lines[1].width = s1.border_width]
                  ELSE IF s1.border_width # 0
                       THEN s1
                       ELSE [s1 EXCEPT !._border_lines[1].rectangle = <<0, 0, 0, 0>>]
             ELSE Set_border_width(
                      [s1 EXCEPT !._border_lines[1].width = max_width], max_width)
        ELSE s1

\* faulty variant of on_border_width: a width over the limit is brought down to the limit
\* in two assignments
on_border_width_clamps_in_steps(s) ==
    LET s1 == set_border_origin(Enter(s, "on_border_width"))
        max_width == s1.size[1] \div 4
    IN  IF Raised(s1) THEN s1
        ELSE IF Get_border_lines(s1) # None
        THEN IF s1.border_width <= max_width
             THEN IF s1.border_width > 0
                  THEN [s1 EXCEPT !._border_lines[1].width = s1.border_width]
                  ELSE IF s1.border_width # 0
                       THEN [s1 EXCEPT !._border_lines[1].width = fabs(s1.border_width)]
                       ELSE [s1 EXCEPT !._border_lines[1].rectangle = <<0, 0, 0, 0>>]
             ELSE Set_border_width(
                      [s1 EXCEPT !._border_lines[1].width = max_width],
                      IF s1.border_width > max_width + 1 THEN max_width + 1 ELSE max_width)
        ELSE s1

on_border_width(s) ==
    LET s1 == set_border_origin(Enter(s, "on_border_width"))
        max_width == s1.size[1] \div 4
    IN  IF Raised(s1) THEN s1
        ELSE IF Get_border_lines(s1) # None
        THEN IF s1.border_width <= max_width
             THEN IF s1.border_width > 0
                  THEN [s1 EXCEPT !._border_lines[1].width = s1.border_width]
                  ELSE IF s1.border_width # 0
                       THEN [s1 EXCEPT !._border_lines[1].width = fabs(s1.border_width)]
                       ELSE [s1 EXCEPT !._border_lines[1].rectangle = <<0, 0, 0, 0>>]
             ELSE Set_border_width(
                      [s1 EXCEPT !._border_lines[1].width = max_width], max_width)
        ELSE s1

\* assignment to the list property border_color (no handler is defined for it)
Set_border_color(s, v) ==
    IF Raised(s) THEN s ELSE [s EXCEPT !.border_color = v]

\* assignment to the plain attribute border_style
Set_border_style(s, v) ==
    IF Raised(s) THEN s ELSE [s EXCEPT !.border_style = Some(v)]

\* self.cur_dash_style = self._dash_styles[self.border_style]
Set_cur_dash_style(s) ==
    IF Raised(s) THEN s
    ELSE IF s.border_style[1] \in DOMAIN s.cls._dash_styles
    THEN [s EXCEPT !.cur_dash_style = Some(s.cls._dash_styles[s.border_style[1]])]
    ELSE [s EXCEPT !.exc = "KeyError"]

\* faulty variant of on_borders: the style is looked up before the fields are assigned
on_borders_looks_up_first(s) ==
    LET s0 == Enter(s, "on_borders")
        value == s0.borders.v
        s1 == Set_border_width(s0, value[1])
        s2 == Set_border_style(s1, value[2])
        s3 == Set_border_color(s2, value[3])
        s4 == Set_cur_dash_style(s3)
    IN  IF value[2] \notin DOMAIN s0.cls._dash_styles THEN [s0 EXCEPT !.exc = "KeyError"]
        ELSE IF Raised(s4) THEN s4 ELSE set_border_origin(s4)

on_borders(s) ==
    LET s0 == Enter(s, "on_borders")
        value == s0.borders.v
        s1 == Set_border_width(s0, value[1])
        s2 == Set_border_style(s1, value[2])
        s3 == Set_border_color(s2, value[3])
        s4 == Set_cur_dash_style(s3)
    IN  IF Raised(s4) THEN s4 ELSE set_border_origin(s4)

\* assignment to the list property borders
Set_borders(s, v) ==
    IF Raised(s) \/ (~s.borders.props /\ s.borders.v = v) THEN s
    ELSE on_borders([s EXCEPT !.borders = [props |-> FALSE, v |-> v]])

\* super(BorderStyle, self).__init__(**kwargs): kw.border_width, kw.border_style and
\* kw.border_color are optional.  The handlers are bound, then the keyword arguments
\* that are properties (border_width, border_color) are assigned; border_style is
\* not a property.
super__init__(s, kw) ==
    LET a1 == IF kw.border_width # None
              THEN Set_border_width(s, kw.border_width[1]) ELSE s
    IN  IF kw.border_color # None
        THEN Set_border_color(a1, kw.border_color[1]) ELSE a1

\* the statements of __init__ after the call of super().__init__
init_attributes(s, kw) ==
    LET w == IF kw.border_width # None /\ kw.border_width[1] # 0
             THEN kw.border_width[1] ELSE 1
        st == IF kw.border_style # None THEN kw.border_style[1] ELSE "solid"
        c == IF kw.border_color # None THEN kw.border_color[1] ELSE White
        s1 == Set_border_width(s, w)
        s2 == Set_border_style(s1, st)
        s3 == Set_cur_dash_style(s2)
    IN  Set_border_color(s3, c)

\* faulty variant of __init__: the primitive is drawn at the end of construction
BorderStyle__init__draws(s, kw) ==
    _draw_border(init_attributes(super__init__(s, kw), kw))

BorderStyle__init__(s, kw) == init_attributes(super__init__(s, kw), kw)

---------------------------------------------------------------------------
\* Operations

Commit(s) ==
    /\ exc' = s.exc
    /\ pos' = s.pos
    /\ size' = s.size
    /\ border_width' = s.border_width
    /\ border_style' = s.border_style
    /\ border_color' = s.border_color
    /\ borders' = s.borders
    /\ cur_dash_style' = s.cur_dash_style
    /\ _border_origin' = s._border_origin
    /\ _border_lines' = s._border_lines
    /\ _border_color' = s._border_color
    /\ _INIT_STATE' = s._INIT_STATE
    /\ canvas_after' = s.canvas_after
    /\ layout_fired' = s.layout_fired
    /\ handled' = s.handled
    /\ klass' = s.cls
    /\ peer' = peer
    /\ actor' = "A"

InRange(s) ==
    /\ s.pos[1] \in (0 - MaxCoord) .. MaxCoord
    /\ s.pos[2] \in (0 - MaxCoord) .. MaxCoord

\* the widget at the start of an operation
Begin == [Widget EXCEPT !.exc = "none"]

Optional(S) == {None} \cup {Some(v) : v \in S}

\* The inputs of a run are drawn from a profile: the sets the arguments of the
\* operations range over.  Both profiles run every operation.  Border widths,
\* positions and sizes vary in the first, styles and colours in the second.
GeometryInputs ==
    [pos |-> Positions, size |-> Sizes, width |-> BWValues,
     style |-> {"solid"}, color |-> {White}]

ConfigInputs ==
    [pos |-> {<<1, 0>>}, size |-> {<<4, 6>>}, width |-> {1, MaxBW},
     style |-> {"solid", "dashed", "wavy"}, color |-> Colors]

Init ==
    /\ phase = "new"
    /\ exc = "none"
    /\ pos = ClassDefaults.pos
    /\ size = ClassDefaults.size
    /\ border_width = ClassDefaults.border_width
    /\ border_style = ClassDefaults.border_style
    /\ border_color = ClassDefaults.border_color
    /\ borders = ClassDefaults.borders
    /\ cur_dash_style = ClassDefaults.cur_dash_style
    /\ _border_origin = ClassDefaults._border_origin
    /\ _border_lines = ClassDefaults._border_lines
    /\ _border_color = ClassDefaults._border_color
    /\ _INIT_STATE = ClassDefaults._INIT_STATE
    /\ canvas_after = ClassDefaults.canvas_after
    /\ layout_fired = FALSE
    /\ handled = FALSE
    /\ klass = ClassAttributes
    /\ peer = [phase |-> "new", w |-> ClassDefaults]
    /\ actor = "A"
    /\ last = [op |-> "class", args |-> <<>>, dispatched |-> FALSE]
    /\ zeroed = 0
    /\ reactivated_from = 0

\* w = BorderStyle(**kw)
Construct(I) ==
    /\ phase = "new"
    /\ \E bw \in Optional(I.width), st \in Optional(I.style), c \in Optional(I.color) :
         LET kw == [border_width |-> bw, border_style |-> st, border_color |-> c]
             s == BorderStyle__init__(Begin, kw)
         IN  /\ Commit(s)
             /\ phase' = IF Raised(s) THEN "raised" ELSE "ok"
             /\ last' = [op |-> "__init__", args |-> <<bw, st, c>>, dispatched |-> TRUE]
    /\ UNCHANGED <<zeroed, reactivated_from>>

\* w.pos = p
SetPos(I) ==
    /\ phase = "ok"
    /\ \E p \in I.pos :
         LET s == Set_pos(Begin, p)
         IN  /\ InRange(s)
             /\ Commit(s)
             /\ last' = [op |-> "pos", args |-> <<p>>, dispatched |-> p # pos]
    /\ UNCHANGED <<phase, zeroed, reactivated_from>>

\* w.size = z
SetSize(I) ==
    /\ phase = "ok"
    /\ \E z \in I.size :
         LET s == Set_size(Begin, z)
         IN  /\ InRange(s)
             /\ Commit(s)
             /\ last' = [op |-> "size", args |-> <<z>>, dispatched |-> z # size]
    /\ UNCHANGED <<phase, zeroed, reactivated_from>>

\* the value of zeroed after border_width was assigned w in an operation from the
\* current state to s
ZeroedAfter(w, s) ==
    IF w = 0 /\ border_width # 0 /\ _border_lines # None /\ s.border_width = 0
    THEN _border_lines[1].id
    ELSE IF w = 0 /\ border_width = 0 THEN zeroed
    ELSE 0

\* w.border_width = v
SetBorderWidth(I) ==
    /\ phase = "ok"
    /\ \E w \in I.width :
         LET s == Set_border_width(Begin, w)
         IN  /\ InRange(s)
             /\ Commit(s)
             /\ last' = [op |-> "border_width", args |-> <<w>>,
                         dispatched |-> w # border_width]
             /\ zeroed' = ZeroedAfter(w, s)
    /\ reactivated_from' = zeroed
    /\ UNCHANGED phase

\* w.border_style = st
SetBorderStyle(I) ==
    /\ phase = "ok"
    /\ \E st \in I.style :
         /\ Commit(Set_border_style(Begin, st))
         /\ last' = [op |-> "border_style", args |-> <<st>>, dispatched |-> FALSE]
    /\ UNCHANGED <<phase, zeroed, reactivated_from>>

\* w.border_color = c
SetBorderColor(I) ==
    /\ phase = "ok"
    /\ \E c \in I.color :
         /\ Commit(Set_border_color(Begin, c))
         /\ last' = [op |-> "border_color", args |-> <<c>>, dispatched |-> FALSE]
    /\ UNCHANGED <<phase, zeroed, reactivated_from>>

\* w.borders = v
SetBorders(I) ==
    /\ phase = "ok"
    /\ \E v \in I.width \X I.style \X I.color :
         LET s == Set_borders(Begin, v)
         IN  /\ InRange(s)
             /\ Commit(s)
             /\ last' = [op |-> "borders", args |-> <<v>>,
                         dispatched |-> borders.props \/ borders.v # v]
             /\ zeroed' = IF s.borders = borders THEN zeroed ELSE ZeroedAfter(v[1], s)
    /\ reactivated_from' = 0
    /\ UNCHANGED phase

\* the handler on_size called again without a change of size
Run_on_size ==
    /\ phase = "ok"
    /\ LET s == on_size(Begin)
       IN  /\ InRange(s)
           /\ Commit(s)
    /\ last' = [op |-> "on_size", args |-> <<>>, dispatched |-> TRUE]
    /\ UNCHANGED <<phase, zeroed, reactivated_from>>

\* the handler on_pos called again without a change of pos
Run_on_pos ==
    /\ phase = "ok"
    /\ Commit(on_pos(Begin))
    /\ last' = [op |-> "on_pos", args |-> <<>>, dispatched |-> TRUE]
    /\ UNCHANGED <<phase, zeroed, reactivated_from>>

Next(I) ==
    \/ Construct(I)
    \/ SetPos(I)
    \/ SetSize(I)
    \/ SetBorderWidth(I)
    \/ SetBorderStyle(I)
    \/ SetBorderColor(I)
    \/ SetBorders(I)
    \/ Run_on_size
    \/ Run_on_pos

\* The second widget.  Its operations are those of the first, run by the same
\* handlers on its own attributes and on the attributes of the class.

PeerWidget ==
    [exc |-> "none", pos |-> peer.w.pos, size |-> peer.w.size,
     border_width |-> peer.w.border_width, border_style |-> peer.w.border_style,
     border_color |-> peer.w.border_color, borders |-> peer.w.borders,
     cur_dash_style |-> peer.w.cur_dash_style,
     _border_origin |-> peer.w._border_origin, _border_lines |-> peer.w._border_lines,
     _border_color |-> peer.w._border_color, _INIT_STATE |-> peer.w._INIT_STATE,
     canvas_after |-> peer.w.canvas_after, layout_fired |-> peer.w.layout_fired,
     handled |-> peer.w.handled, calls |-> NoCalls, cls |-> klass]

\* the attributes of the instance in s
Attributes(s) ==
    [exc |-> s.exc, pos |-> s.pos, size |-> s.size,
     border_width |-> s.border_width, border_style |-> s.border_style,
     border_color |-> s.border_color, borders |-> s.borders,
     cur_dash_style |-> s.cur_dash_style,
     _border_origin |-> s._border_origin, _border_lines |-> s._border_lines,
     _border_color |-> s._border_color, _INIT_STATE |-> s._INIT_STATE,
     canvas_after |-> s.canvas_after, layout_fired |-> s.layout_fired,
     handled |-> s.handled]

PeerCommit(s) ==
    /\ InRange(s)
    /\ peer' = [peer EXCEPT !.w = Attributes(s)]
    /\ klass' = s.cls
    /\ actor' = "B"
    /\ UNCHANGED <<phase, exc, pos, size, border_width, border_style, border_color,
                   borders, cur_dash_style, _border_origin, _border_lines,
                   _border_color, _INIT_STATE, canvas_after, layout_fired, handled,
                   last, zeroed, reactivated_from>>

\* b = BorderStyle(**kw)
PeerConstruct(I) ==
    /\ peer.phase = "new"
    /\ \E bw \in Optional(I.width), st \in Optional(I.style), c \in Optional(I.color) :
         LET kw == [border_width |-> bw, border_style |-> st, border_color |-> c]
             s == BorderStyle__init__(PeerWidget, kw)
         IN  /\ peer' = [phase |-> IF Raised(s) THEN "raised" ELSE "ok",
                         w |-> Attributes(s)]
             /\ klass' = s.cls
    /\ actor' = "B"
    /\ UNCHANGED <<phase, exc, pos, size, border_width, border_style, border_color,
                   borders, cur_dash_style, _border_origin, _border_lines,
                   _border_color, _INIT_STATE, canvas_after, layout_fired, handled,
                   last, zeroed, reactivated_from>>

\* b.pos = p
PeerSetPos(I) ==
    peer.phase = "ok" /\ \E p \in I.pos : PeerCommit(Set_pos(PeerWidget, p))

\* b.size = z
PeerSetSize(I) ==
    peer.phase = "ok" /\ \E z \in I.size : PeerCommit(Set_size(PeerWidget, z))

\* b.border_width = w
PeerSetBorderWidth(I) ==
    peer.phase = "ok" /\ \E w \in I.width : PeerCommit(Set_border_width(PeerWidget, w))

\* b.border_style = st
PeerSetBorderStyle(I) ==
    peer.phase = "ok" /\ \E st \in I.style : PeerCommit(Set_border_style(PeerWidget, st))

\* b.border_color = c
PeerSetBorderColor(I) ==
    peer.phase = "ok" /\ \E c \in I.color : PeerCommit(Set_border_color(PeerWidget, c))

\* b.borders = v
PeerSetBorders(I) ==
    peer.phase = "ok"
        /\ \E v \in I.width \X I.style \X I.color : PeerCommit(Set_borders(PeerWidget, v))

PeerNext(I) ==
    \/ PeerConstruct(I)
    \/ PeerSetPos(I)
    \/ PeerSetSize(I)
    \/ PeerSetBorderWidth(I)
    \/ PeerSetBorderStyle(I)
    \/ PeerSetBorderColor(I)
    \/ PeerSetBorders(I)

\* The profile of the runs with two widgets: one value for each argument
PairInputs ==
    [pos |-> {<<1, 0>>}, size |-> {<<4, 6>>}, width |-> {MaxBW},
     style |-> {"dashed"}, color |-> {Red}]

\* the operations from outside on either widget
NextPair ==
    \/ Construct(PairInputs)
    \/ SetPos(PairInputs)
    \/ SetSize(PairInputs)
    \/ SetBorderWidth(PairInputs)
    \/ SetBorderStyle(PairInputs)
    \/ SetBorderColor(PairInputs)
    \/ SetBorders(PairInputs)
    \/ PeerNext(PairInputs)

NextGeometry == Next(GeometryInputs)
NextConfig == Next(ConfigInputs)

\* runs over the geometry profile
Spec == Init /\ [][NextGeometry]_vars

\* runs over the configuration profile
SpecConfig == Init /\ [][NextConfig]_vars

\* runs of two widgets
SpecPair == Init /\ [][NextPair]_vars

---------------------------------------------------------------------------
\* Claims

HasLine == _border_lines # None
Line == _border_lines[1]
Abs(x) == IF x < 0 THEN 0 - x ELSE x
\* widget.width / 4
QuarterWidth == size[1] \div 4
\* the widget's bounds inset by w on each side
InsetRect(w) == <<pos[1] + w, pos[2] + w, size[1] - 2 * w, size[2] - 2 * w>>
\* the state after the assignment border_width = w has returned
AfterBorderWidth(w) ==
    phase = "ok" /\ exc = "none" /\ last.op = "border_width" /\ last.args = <<w>>

\* C1: after the assignment border_width = w with w > width / 4, from any state, the
\* stored border_width and the stroke width of the primitive both equal width / 4.
C1_ClampedOnAssignment ==
    \A w \in BWValues :
        AfterBorderWidth(w) /\ w > QuarterWidth
            => /\ border_width = QuarterWidth
               /\ HasLine
               /\ Line.width = QuarterWidth

\* C2 as stated: after the assignment border_width = w with 0 < w <= width / 4, from
\* any state, the stroke width is w and the rectangle is the bounds inset by w.
C2_InsetOnAssignment ==
    \A w \in BWValues :
        AfterBorderWidth(w) /\ 0 < w /\ w <= QuarterWidth
            => /\ HasLine
               /\ Line.width = w
               /\ Line.rectangle = InsetRect(w)

\* C2 amended: the same, for an assignment of a w that differs from the stored
\* border_width (the assignment that calls on_border_width).
C2_InsetOnChange ==
    \A w \in BWValues :
        AfterBorderWidth(w) /\ last.dispatched /\ 0 < w /\ w <= QuarterWidth
            => /\ HasLine
               /\ Line.width = w
               /\ Line.rectangle = InsetRect(w)

C2_Witness ==
    /\ AfterBorderWidth(2)
    /\ last.dispatched
    /\ QuarterWidth >= 2
    /\ HasLine
    /\ Line.rectangle = InsetRect(2)
    /\ pos # <<0, 0>>

\* C3: once border_width was assigned 0 with the primitive existing, and while only
\* the position and the size change, the rectangle of the primitive has zero extent.
C3_NoBorderWhileZero ==
    zeroed # 0 => HasLine /\ Line.rectangle[3] = 0 /\ Line.rectangle[4] = 0

\* C4: border_width assigned 0 with the primitive existing and later assigned w,
\* 0 < w <= width / 4: the primitive is the instance it was (none was created since),
\* its stroke width is w and its rectangle is the bounds inset by w.
C4_Reactivation ==
    \A w \in BWValues :
        AfterBorderWidth(w) /\ reactivated_from # 0 /\ 0 < w /\ w <= QuarterWidth
            => /\ HasLine
               /\ Line.id = reactivated_from
               /\ Len(canvas_after) = reactivated_from
               /\ Line.width = w
               /\ Line.rectangle = InsetRect(w)

C4_Witness ==
    /\ AfterBorderWidth(1)
    /\ reactivated_from # 0
    /\ QuarterWidth >= 1
    /\ HasLine
    /\ Line.width = 1
    /\ Line.rectangle = InsetRect(1)
    /\ size # WidgetDefaultSize

\* C5: after the assignment border_width = w with w < 0, the stored border_width is
\* w, the stroke width is abs(w) and the origin is pos + (w, w).
C5_NegativeWidth ==
    \A w \in BWValues :
        AfterBorderWidth(w) /\ w < 0
            => /\ border_width = w
               /\ HasLine
               /\ Line.width = Abs(w)
               /\ _border_origin = <<pos[1] + w, pos[2] + w>>

C5_Witness ==
    /\ AfterBorderWidth(0 - 2)
    /\ HasLine
    /\ Line.width = 2
    /\ _border_origin[1] < pos[1]
    /\ _border_origin[2] < pos[2]

\* C6: after the assignment borders = (w, s, c) with s a key of _dash_styles and
\* w <= width / 4, from any state, border_width = w, border_style = s and
\* border_color = c.
C6_BordersRoundTrip ==
    phase = "ok" /\ last.op = "borders"
        /\ last.args[1][2] \in DOMAIN _dash_styles
        /\ last.args[1][1] <= QuarterWidth
        => /\ border_width = last.args[1][1]
           /\ border_style = Some(last.args[1][2])
           /\ border_color = last.args[1][3]

\* C7: a run of on_size or on_pos that follows a run of on_size or on_pos changes
\* neither pos, nor the origin, nor the primitive.
C7_SyncIdempotent ==
    [][(last.op \in {"on_size", "on_pos"} /\ last'.op \in {"on_size", "on_pos"})
          => /\ pos' = pos
             /\ _border_origin' = _border_origin
             /\ _border_lines' = _border_lines]_vars

\* C8: a widget constructed with no border argument has border_width 1,
\* border_style 'solid' and border_color (1, 1, 1, 1); and no primitive exists before
\* on_size or on__border_origin has run.
C8_DefaultsAndLazyPrimitive ==
    /\ phase = "ok" /\ last.op = "__init__" /\ last.args = <<None, None, None>>
         => border_width = 1 /\ border_style = Some("solid") /\ border_color = White
    /\ phase = "ok" /\ ~layout_fired
         => _border_lines = None /\ _border_color = None /\ canvas_after = <<>>

C8_Witness ==
    /\ phase = "ok"
    /\ last.op = "__init__"
    /\ last.args = <<None, None, None>>
    /\ ~layout_fired
    /\ _border_lines = None

\* C9: after BorderStyle(border_width = w), for every w, construction has returned
\* and the stored border_width is w.
C9_WidthFromArgument ==
    phase # "new" /\ last.op = "__init__" /\ last.args[1] # None
        => phase = "ok" /\ border_width = last.args[1][1]

\* C10: at most one primitive is ever added to canvas.after, and the primitive the
\* widget holds is that one.
C10_OnePrimitive ==
    /\ Len(canvas_after) <= 1
    /\ HasLine <=> canvas_after = <<1>>
    /\ HasLine => Line.id = 1

C10_Witness ==
    /\ HasLine
    /\ last.op = "size"
    /\ last.dispatched
    /\ zeroed # 0
    /\ pos # <<0, 0>>

\* C11: a step of a constructed widget that changes border_style, alone or through
\* borders, to a key of _dash_styles, leaves cur_dash_style at the table entry of the
\* new style; a step that changes border_style, border_color or border_width leaves
\* the origin at pos + (border_width, border_width).
C11_RecomputedOnChange ==
    [][phase = "ok" /\ exc' = "none"
           /\ \/ border_style' # border_style
              \/ border_color' # border_color
              \/ border_width' # border_width
        => /\ _border_origin' = <<pos'[1] + border_width', pos'[2] + border_width'>>
           /\ border_style' # border_style /\ border_style'[1] \in DOMAIN _dash_styles
                => cur_dash_style' = Some(_dash_styles[border_style'[1]])]_vars

\* the widget after each single change from outside of the current state: of size,
\* of pos, of border_width, of borders
ExternalChanges ==
    {Set_size(Begin, z) : z \in GeometryInputs.size}
        \cup {Set_pos(Begin, p) : p \in GeometryInputs.pos}
        \cup {Set_border_width(Begin, w) : w \in GeometryInputs.width}
        \cup {Set_borders(Begin, v) :
                v \in GeometryInputs.width \X GeometryInputs.style \X GeometryInputs.color}

\* C12: from every state of a constructed widget, the handlers that a single change
\* of size, pos, border_width or borders calls return, and they are few: on_size,
\* on_pos and on_borders are entered at most once, on_border_width at most twice
\* (the assignment and the one re-entry of the clamping write), and on__border_origin
\* at most four times.
C12_FiniteChain ==
    phase = "ok"
        => \A s \in ExternalChanges :
               /\ s.calls["on_size"] <= 1
               /\ s.calls["on_pos"] <= 1
               /\ s.calls["on_borders"] <= 1
               /\ s.calls["on_border_width"] <= 2
               /\ s.calls["on__border_origin"] <= 4

\* border_width was assigned a value over the limit and the clamping write ran
C12_Witness ==
    /\ phase = "ok" /\ HasLine
    /\ last.op = "border_width" /\ last.dispatched
    /\ last.args[1] > QuarterWidth
    /\ border_width = QuarterWidth

\* C13: a step that handles a change of size (on_size) moves the widget from its
\* position p to p + (b, b), b its border_width, and leaves the origin at the new
\* position plus (b, b); and in every state of a constructed widget in which on_pos,
\* on_size or on_border_width has run, the origin is pos + (border_width, border_width).
C13_SizeOverwritesPos ==
    /\ [][last'.op \in {"size", "on_size"} /\ last'.dispatched
            => /\ pos' = <<pos[1] + border_width, pos[2] + border_width>>
               /\ _border_origin' = <<pos'[1] + border_width, pos'[2] + border_width>>]_vars
    /\ [](phase = "ok" /\ handled
            => _border_origin = <<pos[1] + border_width, pos[2] + border_width>>)

\* a size change has moved a widget with a border off its position
C13_Witness ==
    /\ phase = "ok"
    /\ last.op = "size" /\ last.dispatched
    /\ border_width = 1
    /\ pos = <<2, 1>>
    /\ _border_origin = <<3, 2>>

\* C14: in every state of a constructed widget whose primitive exists, border_width
\* and the stroke width of the primitive are at most a quarter of the widget's width.
C14_WithinQuarter ==
    phase = "ok" /\ HasLine
        => border_width <= QuarterWidth /\ Line.width <= QuarterWidth

\* C15: in every state of a constructed widget whose primitive exists and whose
\* border_width is not 0, the rectangle of the primitive is
\* [origin.x, origin.y, width - 2 * border_width, height - 2 * border_width].
C15_RectangleInStep ==
    phase = "ok" /\ HasLine /\ border_width # 0
        => Line.rectangle = <<_border_origin[1], _border_origin[2],
                              size[1] - 2 * border_width, size[2] - 2 * border_width>>

\* C16 as stated: after every assignment borders = (w, s, c) with s no key of
\* _dash_styles, the assignment has failed with KeyError, and border_style and
\* border_color hold s and c.
C16_UnknownStyleFails ==
    phase = "ok" /\ last.op = "borders" /\ last.args[1][2] \notin DOMAIN _dash_styles
        => /\ exc = "KeyError"
           /\ border_style = Some(last.args[1][2])
           /\ border_color = last.args[1][3]

\* C16, for a list that differs from the stored one: the step of the assignment
\* borders = (w, s, c) with s no key of _dash_styles fails with KeyError; borders,
\* border_style and border_color hold the new values and border_width holds w, or
\* width / 4 when its handler ran and clamped it; cur_dash_style is what it was; and
\* when w is the stored border_width, so that no handler of border_width ran, the
\* origin is what it was.
C16_UnknownStyleFailsOnChange ==
    [][last'.op = "borders" /\ last'.dispatched
           /\ last'.args[1][2] \notin DOMAIN _dash_styles
        => LET v == last'.args[1]
           IN  /\ exc' = "KeyError"
               /\ borders' = [props |-> FALSE, v |-> v]
               /\ border_width' =
                      IF v[1] # border_width /\ _border_lines' # None
                              /\ v[1] > size[1] \div 4
                      THEN size[1] \div 4 ELSE v[1]
               /\ border_style' = Some(v[2])
               /\ border_color' = v[3]
               /\ cur_dash_style' = cur_dash_style
               /\ v[1] = border_width => _border_origin' = _border_origin]_vars

\* a widget styled 'dashed' was assigned a borders list with an unknown style
C16_Witness ==
    /\ phase = "ok"
    /\ last.op = "borders" /\ last.dispatched
    /\ exc = "KeyError"
    /\ border_style = Some("wavy")
    /\ border_color = Red
    /\ cur_dash_style = Some(_dash_styles["dashed"])

\* C17: in every state of a constructed widget whose borders has been assigned,
\* borders is the list (border_width, border_style, border_color).
C17_AggregateInStep ==
    phase = "ok" /\ exc = "none" /\ ~borders.props
        => borders.v = <<border_width, border_style[1], border_color>>

\* C18: in every state of a constructed widget whose primitive exists and whose
\* border_width is not 0, the stroke width of the primitive is the absolute value of
\* border_width.
C18_StrokeIsAbs ==
    phase = "ok" /\ HasLine /\ border_width # 0 => Line.width = Abs(border_width)

\* a widget with a negative border_width has handled a size change
C18_Witness ==
    /\ phase = "ok" /\ HasLine
    /\ last.op = "size" /\ last.dispatched
    /\ border_width = 0 - 1
    /\ Line.width = 1

\* C19: in every state of a constructed widget whose primitive exists, the colour
\* instruction holds border_color, and the dash_length and dash_offset of the
\* primitive are those of the table entry of border_style when it has one.
C19_DrawnAsConfigured ==
    phase = "ok" /\ HasLine
        => /\ _border_color = Some(border_color)
           /\ border_style[1] \in DOMAIN _dash_styles
                => /\ Line.dash_length = _dash_styles[border_style[1]].dash_length
                   /\ Line.dash_offset = _dash_styles[border_style[1]].dash_offset

\* what the second widget sees through self: its attributes, and for _INIT_STATE,
\* _border_lines and _dash_styles the attributes of the class where it has none
PeerView ==
    [border_width |-> peer.w.border_width, border_style |-> peer.w.border_style,
     border_color |-> peer.w.border_color, cur_dash_style |-> peer.w.cur_dash_style,
     _border_origin |-> peer.w._border_origin,
     _border_color |-> peer.w._border_color,
     _INIT_STATE |-> Get_INIT_STATE(PeerWidget),
     _border_lines |-> Get_border_lines(PeerWidget),
     _dash_styles |-> klass._dash_styles]

\* the same of the first widget
SelfView ==
    [border_width |-> border_width, border_style |-> border_style,
     border_color |-> border_color, cur_dash_style |-> cur_dash_style,
     _border_origin |-> _border_origin,
     _border_color |-> _border_color,
     _INIT_STATE |-> Get_INIT_STATE(Widget),
     _border_lines |-> Get_border_lines(Widget),
     _dash_styles |-> klass._dash_styles]

\* C20: no operation on one of two widgets changes what the other reads as its
\* border_width, border_style, border_color, cur_dash_style, origin, _INIT_STATE,
\* primitive or style table.
C20_Isolated ==
    [][/\ actor' = "A" => PeerView' = PeerView
       /\ actor' = "B" => SelfView' = SelfView]_vars

\* the first widget has drawn its primitive after the second was constructed, and
\* the second has none and still reads _INIT_STATE as False
C20_Witness ==
    /\ phase = "ok" /\ peer.phase = "ok" /\ actor = "A"
    /\ HasLine /\ _INIT_STATE = Some(TRUE)
    /\ peer.w._border_lines = None
    /\ ~Get_INIT_STATE(PeerWidget)
    /\ last.op = "size" /\ last.dispatched

====
